---- MODULE Spec2Model ----
(***************************************************************************)
(* Sparse Merkle tree of src/sparse_merkle_tree.rs.                        *)
(*                                                                         *)
(* A tree is {height, nodes, zero_hashes}.  nodes is the HashMap from a    *)
(* bit path (a sequence of booleans) to a Node; zero_hashes is stored      *)
(* root-to-leaf, so the Rust index zero_hashes[d] is zero_hashes[d + 1]    *)
(* here.  The hasher H is a type parameter of the tree: its two functions  *)
(* are modelled as free constructors, so two digests are equal exactly     *)
(* when they were computed the same way.  A panic unwinds out of the call  *)
(* and leaves the map as the call had left it at that point.               *)
(***************************************************************************)
EXTENDS FiniteSets, Integers, Sequences, TLC

\* ---------------------------------------------------------------- bounds
MaxHeight == 2      \* trees of height 0..MaxHeight
MaxElem   == 1      \* field elements 0..MaxElem
MaxNodes  == 5      \* entries of the node map

ValueWidth == 4      \* vec![F::ZERO; 4]

VARIABLES
    height,       \* SparseMerkleTree.height
    nodes,        \* SparseMerkleTree.nodes
    zero_hashes,  \* SparseMerkleTree.zero_hashes
    twin,         \* a second tree, constructed independently with the same height
    op,           \* the last call: "new", "update", "prove", "get_leaf", ...
    arg_path,     \* its path argument
    arg_value,    \* its value argument (update only)
    outcome,      \* "ok" or "panic"
    panic_line,   \* source line of the panic, 0 when there was none
    result,       \* the value the call returned
    writes,       \* update only: the keys inserted, in order
    pre,          \* the tree as it was when the last call started
    leaves        \* history: leaf path -> value of the last update that stored it

vars == <<height, nodes, zero_hashes, twin, op, arg_path, arg_value, outcome,
          panic_line, result, writes, pre, leaves>>

\* ------------------------------------------------------- paths and values
RECURSIVE PathsOfLen(_)
PathsOfLen(n) ==
    IF n = 0 THEN {<<>>}
    ELSE {Append(p, b) : p \in PathsOfLen(n - 1), b \in BOOLEAN}

\* paths one bit longer than a tree of height h allows: only their length is
\* ever looked at, so two of them stand for all
LongPaths(h) == {[i \in 1..(h + 1) |-> b] : b \in BOOLEAN}

\* the paths a caller may pass to a tree of height h: every path of a valid
\* length and the two that are too long
InputPaths == [h \in 0..MaxHeight |->
                  UNION {PathsOfLen(n) : n \in 0..h} \cup LongPaths(h)]

ZeroLeaf == [i \in 1..ValueWidth |-> 0]

Val(e) == [i \in 1..ValueWidth |-> IF i = 1 THEN e ELSE 0]

Values == {Val(e) : e \in 0..MaxElem}

\* variant: drops the first bit of the path instead of the last
Pop_DropFirst(path) == SubSeq(path, 2, Len(path))

Pop(path) == SubSeq(path, 1, Len(path) - 1)

FlipLast(path) == [path EXCEPT ![Len(path)] = ~path[Len(path)]]

EmptyMap == [p \in {} |-> p]

Insert(map, key, node) ==
    [k \in DOMAIN map \cup {key} |-> IF k = key THEN node ELSE map[k]]

\* ------------------------------------------------------------------ Node
Leaf(value) == [kind |-> "Leaf", value |-> value]

InnerNode(left, right) == [kind |-> "InnerNode", left |-> left, right |-> right]

two_to_one(left, right) == <<"two_to_one", left, right>>

hash_or_noop(value) == <<"hash_or_noop", value>>

hash(node) ==
    IF node.kind = "InnerNode" THEN two_to_one(node.left, node.right)
    ELSE hash_or_noop(node.value)

\* ------------------------------------------------------- call outcomes
Ok(v) == [outcome |-> "ok", line |-> 0, val |-> v]

Panic(line) == [outcome |-> "panic", line |-> line, val |-> <<>>]

\* ------------------------------------------------------------------- new
RECURSIVE NewLoop(_, _, _)
NewLoop(i, h, zs) ==
    IF i = 0 THEN zs
    ELSE LET h2 == hash(InnerNode(h, h)) IN NewLoop(i - 1, h2, Append(zs, h2))

Reverse(s) == [i \in 1..Len(s) |-> s[Len(s) + 1 - i]]

\* variant: the default hashes are left in the order they were computed
new_NoReverse(ht) ==
    LET h == hash(Leaf(ZeroLeaf))
    IN [height |-> ht,
        nodes |-> EmptyMap,
        zero_hashes |-> NewLoop(ht, h, <<h>>)]

new(ht) ==
    LET h == hash(Leaf(ZeroLeaf))
    IN [height |-> ht,
        nodes |-> EmptyMap,
        zero_hashes |-> Reverse(NewLoop(ht, h, <<h>>))]

\* --------------------------------------------------------------- queries
\* variant: an absent leaf reads as the default value
get_leaf_Default(self, path) ==
    IF Len(path) # self.height THEN Panic(41)
    ELSE IF path \in DOMAIN self.nodes /\ self.nodes[path].kind = "Leaf"
         THEN Ok(self.nodes[path].value)
         ELSE Ok(ZeroLeaf)

get_leaf(self, path) ==
    IF Len(path) # self.height THEN Panic(41)
    ELSE IF path \in DOMAIN self.nodes /\ self.nodes[path].kind = "Leaf"
         THEN Ok(self.nodes[path].value)
         ELSE Panic(44)

\* variant: the default hashes are read as if they were stored leaf-to-root
get_node_hash_LeafFirst(self, path) ==
    IF ~(Len(path) <= self.height) THEN Panic(49)
    ELSE IF path \in DOMAIN self.nodes THEN Ok(hash(self.nodes[path]))
         ELSE Ok(self.zero_hashes[self.height - Len(path) + 1])

get_node_hash(self, path) ==
    IF ~(Len(path) <= self.height) THEN Panic(49)
    ELSE IF path \in DOMAIN self.nodes THEN Ok(hash(self.nodes[path]))
         ELSE Ok(self.zero_hashes[Len(path) + 1])

get_root(self) == get_node_hash(self, <<>>)

\* variant: drops the last bit instead of flipping it
get_sibling_hash_Parent(self, path) ==
    IF ~(Len(path) > 0) THEN Panic(61)
    ELSE get_node_hash(self, Pop(path))

get_sibling_hash(self, path) ==
    IF ~(Len(path) > 0) THEN Panic(61)
    ELSE get_node_hash(self, FlipLast(path))

\* ---------------------------------------------------------------- update
\* variant: the two branches of the test of the dropped bit are exchanged
RECURSIVE UpdateLoop_Swapped(_, _, _)
UpdateLoop_Swapped(self, path, ws) ==
    LET h == get_node_hash(self, path)
    IN IF h.outcome # "ok"
       THEN [nodes |-> self.nodes, outcome |-> "panic", line |-> h.line, writes |-> ws]
       ELSE IF Len(path) = 0
       THEN [nodes |-> self.nodes, outcome |-> "panic", line |-> 77, writes |-> ws]
       ELSE LET parent_path == Pop(path)
                s == get_sibling_hash(self, path)
            IN IF s.outcome # "ok"
               THEN [nodes |-> self.nodes, outcome |-> "panic", line |-> s.line,
                     writes |-> ws]
               ELSE LET node == IF path[Len(path)]
                                THEN InnerNode(h.val, s.val)
                                ELSE InnerNode(s.val, h.val)
                        next == [self EXCEPT !.nodes = Insert(@, parent_path, node)]
                        ws2 == Append(ws, parent_path)
                    IN IF Len(path) = 1
                       THEN [nodes |-> next.nodes, outcome |-> "ok", line |-> 0,
                             writes |-> ws2]
                       ELSE UpdateLoop_Swapped(next, parent_path, ws2)

\* One pass of the loop of update (lines 75-97) and the passes after it.
RECURSIVE UpdateLoop(_, _, _)
UpdateLoop(self, path, ws) ==
    LET h == get_node_hash(self, path)
    IN IF h.outcome # "ok"
       THEN [nodes |-> self.nodes, outcome |-> "panic", line |-> h.line, writes |-> ws]
       ELSE IF Len(path) = 0
       THEN \* path.len() - 1 on an empty path: the subtraction overflows
            \* (debug build) or the slice 0..usize::MAX is out of range
            [nodes |-> self.nodes, outcome |-> "panic", line |-> 77, writes |-> ws]
       ELSE LET parent_path == Pop(path)
                s == get_sibling_hash(self, path)
            IN IF s.outcome # "ok"
               THEN [nodes |-> self.nodes, outcome |-> "panic", line |-> s.line,
                     writes |-> ws]
               ELSE LET node == IF path[Len(path)]
                                THEN InnerNode(s.val, h.val)
                                ELSE InnerNode(h.val, s.val)
                        next == [self EXCEPT !.nodes = Insert(@, parent_path, node)]
                        ws2 == Append(ws, parent_path)
                    IN IF Len(path) = 1
                       THEN [nodes |-> next.nodes, outcome |-> "ok", line |-> 0,
                             writes |-> ws2]
                       ELSE UpdateLoop(next, parent_path, ws2)

\* variant: the length of the path is checked after the leaf is stored
update_LateAssert(self, path, value) ==
    LET stored == [self EXCEPT !.nodes = Insert(@, path, Leaf(value))]
    IN IF Len(path) # self.height
       THEN [nodes |-> stored.nodes, outcome |-> "panic", line |-> 70,
             writes |-> <<path>>]
       ELSE UpdateLoop(stored, path, <<path>>)

\* variant: the leaf itself is not stored before the ancestors are rebuilt
update_NoLeaf(self, path, value) ==
    IF Len(path) # self.height
    THEN [nodes |-> self.nodes, outcome |-> "panic", line |-> 70, writes |-> <<>>]
    ELSE UpdateLoop(self, path, <<>>)

update(self, path, value) ==
    IF Len(path) # self.height
    THEN [nodes |-> self.nodes, outcome |-> "panic", line |-> 70, writes |-> <<>>]
    ELSE UpdateLoop([self EXCEPT !.nodes = Insert(@, path, Leaf(value))], path, <<path>>)

\* ----------------------------------------------------------------- prove
\* variant: the siblings are collected root-to-leaf
RECURSIVE ProveLoop_RootFirst(_, _, _)
ProveLoop_RootFirst(self, path, siblings) ==
    LET s == get_sibling_hash(self, path)
    IN IF s.outcome # "ok" THEN Panic(s.line)
       ELSE LET siblings2 == <<s.val>> \o siblings
            IN IF Len(path) = 1 THEN Ok(siblings2)
               ELSE ProveLoop_RootFirst(self, Pop(path), siblings2)

RECURSIVE ProveLoop(_, _, _)
ProveLoop(self, path, siblings) ==
    LET s == get_sibling_hash(self, path)
    IN IF s.outcome # "ok" THEN Panic(s.line)
       ELSE LET siblings2 == Append(siblings, s.val)
            IN IF Len(path) = 1 THEN Ok(siblings2)
               ELSE ProveLoop(self, Pop(path), siblings2)

prove(self, path) ==
    IF Len(path) # self.height THEN Panic(101)
    ELSE ProveLoop(self, path, <<>>)

\* ------------------------------------------------------------ the program
Self == [height |-> height, nodes |-> nodes, zero_hashes |-> zero_hashes]

\* the paths a caller may pass to the tree
Paths == InputPaths[height]

Init ==
    /\ height \in 0..MaxHeight
    /\ nodes = new(height).nodes
    /\ zero_hashes = new(height).zero_hashes
    /\ twin = new(height)
    /\ op = "new"
    /\ arg_path = <<>>
    /\ arg_value = <<>>
    /\ outcome = "ok"
    /\ panic_line = 0
    /\ result = <<>>
    /\ writes = <<>>
    /\ pre = [height |-> height, nodes |-> EmptyMap, zero_hashes |-> zero_hashes]
    /\ leaves = EmptyMap

\* a call that takes &self: the tree is left alone
Query(name, path, r) ==
    /\ op' = name
    /\ arg_path' = path
    /\ arg_value' = <<>>
    /\ outcome' = r.outcome
    /\ panic_line' = r.line
    /\ result' = r.val
    /\ writes' = <<>>
    /\ pre' = Self
    /\ UNCHANGED <<height, nodes, zero_hashes, twin, leaves>>

Update ==
    \E path \in Paths, value \in Values :
       \E r \in {update(Self, path, value)} :
             /\ Cardinality(DOMAIN r.nodes) <= MaxNodes
             /\ nodes' = r.nodes
             /\ op' = "update"
             /\ arg_path' = path
             /\ arg_value' = value
             /\ outcome' = r.outcome
             /\ panic_line' = r.line
             /\ result' = <<>>
             /\ writes' = r.writes
             /\ pre' = Self
             /\ leaves' = IF Len(path) = height THEN Insert(leaves, path, value)
                          ELSE leaves
             /\ UNCHANGED <<height, zero_hashes, twin>>

Prove == \E path \in Paths : \E r \in {prove(Self, path)} : Query("prove", path, r)

GetLeaf == \E path \in Paths : \E r \in {get_leaf(Self, path)} : Query("get_leaf", path, r)

GetNodeHash ==
    \E path \in Paths : \E r \in {get_node_hash(Self, path)} : Query("get_node_hash", path, r)

GetRoot == \E r \in {get_root(Self)} : Query("get_root", <<>>, r)

GetSiblingHash ==
    \E path \in Paths :
       \E r \in {get_sibling_hash(Self, path)} : Query("get_sibling_hash", path, r)

Next == Update \/ Prove \/ GetLeaf \/ GetNodeHash \/ GetRoot \/ GetSiblingHash

Spec == Init /\ [][Next]_vars

\* ----------------------------------------------------------- type check
TypeOK ==
    /\ height \in 0..MaxHeight
    /\ DOMAIN nodes \subseteq Paths
    /\ Len(zero_hashes) = height + 1
    /\ outcome \in {"ok", "panic"}
    /\ Cardinality(DOMAIN nodes) <= MaxNodes

\* ------------------------------------------------------ reference values
\* the value the conceptual full tree holds at a leaf path
CurrentValue(p) == IF p \in DOMAIN leaves THEN leaves[p] ELSE ZeroLeaf

\* the hash of the conceptual full tree at path p
RECURSIVE Ref(_)
Ref(p) ==
    IF Len(p) >= height THEN hash_or_noop(CurrentValue(p))
    ELSE two_to_one(Ref(Append(p, FALSE)), Ref(Append(p, TRUE)))

\* fold a sibling sequence from the leaf upward: at step i the running hash
\* goes right when bit i of the path, counted from the end, is true
RECURSIVE Fold(_, _, _)
Fold(siblings, path, h) ==
    IF siblings = <<>> THEN h
    ELSE Fold(Tail(siblings), Pop(path),
              IF path[Len(path)] THEN two_to_one(Head(siblings), h)
              ELSE two_to_one(h, Head(siblings)))

IsPrefix(q, p) == Len(q) <= Len(p) /\ SubSeq(p, 1, Len(q)) = q

NodePaths == {p \in Paths : Len(p) <= height}

\* ---------------------------------------------------------------- claims

\* C1: in a tree of height >= 1, right after update(P, V) get_leaf(P) returns
\* V, and get_leaf(P) returns the value of the last update of P whatever was
\* written to other leaves since.
C1_RoundTrip ==
    height >= 1 =>
        /\ (op = "update" /\ outcome = "ok") => get_leaf(Self, arg_path) = Ok(arg_value)
        /\ \A P \in DOMAIN leaves : get_leaf(Self, P) = Ok(leaves[P])

\* an update of Q has just completed while another leaf P, written earlier,
\* holds a different value
C1_Witness ==
    /\ height >= 1
    /\ op = "update"
    /\ outcome = "ok"
    /\ \E P \in DOMAIN pre.nodes :
          /\ Len(P) = height
          /\ P # arg_path
          /\ leaves[P] # arg_value
          /\ get_leaf(Self, P) = Ok(leaves[P])

\* C2: in a tree of height >= 1, after update(P, V) the fold of prove(P)
\* over the bits of P, started at the leaf hash of V, is get_root().
C2_ProofSoundness ==
    (height >= 1 /\ op = "update" /\ outcome = "ok") =>
        /\ prove(Self, arg_path).outcome = "ok"
        /\ Ok(Fold(prove(Self, arg_path).val, arg_path, hash_or_noop(arg_value)))
              = get_root(Self)

\* an update has completed in a tree of height 2 where the sibling leaf and
\* a leaf of the other half are not both default
C2_Witness ==
    /\ height >= 2
    /\ op = "update"
    /\ outcome = "ok"
    /\ arg_path[Len(arg_path)]
    /\ \E Q \in DOMAIN leaves : Q # arg_path /\ leaves[Q] # ZeroLeaf
    /\ Len(prove(Self, arg_path).val) = height

\* C3: in a tree of height >= 1, get_node_hash(p) is the hash of the
\* conceptual full tree at p for every path p of length <= height; so
\* get_root() is that of the whole tree.
C3_RootCommits ==
    height >= 1 =>
        /\ \A p \in NodePaths : get_node_hash(Self, p) = Ok(Ref(p))
        /\ get_root(Self) = Ok(Ref(<<>>))

\* two leaves are written, one of them not default, in a tree of height 2
C3_Witness ==
    /\ height >= 2
    /\ op = "update"
    /\ outcome = "ok"
    /\ Cardinality(DOMAIN leaves) >= 2
    /\ \E Q \in DOMAIN leaves : leaves[Q] # ZeroLeaf
    /\ get_root(Self) # Ok(zero_hashes[1])

\* C4: update(P, V) leaves get_node_hash(q) and the map entry at q as they
\* were, for every path q of length <= height that is not a prefix of P.
C4_Locality ==
    op = "update" =>
        \A q \in NodePaths :
            ~IsPrefix(q, arg_path) =>
                /\ get_node_hash(Self, q) = get_node_hash(pre, q)
                /\ (q \in DOMAIN nodes) = (q \in DOMAIN pre.nodes)
                /\ q \in DOMAIN nodes => nodes[q] = pre.nodes[q]

\* an update has changed the root while entries off its path were stored
C4_Witness ==
    /\ op = "update"
    /\ outcome = "ok"
    /\ height >= 2
    /\ get_root(Self) # get_root(pre)
    /\ \E q \in DOMAIN pre.nodes : ~IsPrefix(q, arg_path) /\ nodes[q] = pre.nodes[q]

\* C5: in a tree of height >= 1, update(P, V) directly followed by
\* update(P, V) leaves the node map, and so the root, as the first left it.
C5_Idempotence ==
    [][(/\ height >= 1
        /\ op = "update" /\ outcome = "ok"
        /\ op' = "update" /\ arg_path' = arg_path /\ arg_value' = arg_value)
           => (nodes' = nodes /\ outcome' = "ok" /\ get_root(Self)' = get_root(Self))]_vars

\* the second of two equal updates has run: the leaf held V when it started
\* and the first one had changed the root
C5_Witness ==
    /\ height >= 1
    /\ op = "update"
    /\ outcome = "ok"
    /\ get_leaf(pre, arg_path) = Ok(arg_value)
    /\ arg_value # ZeroLeaf
    /\ pre.nodes = nodes

C7_HeightZero ==
    height = 0 =>
        /\ (op = "update" /\ arg_path = <<>>) =>
              /\ outcome = "ok"
              /\ get_root(Self) = Ok(hash_or_noop(arg_value))
              /\ get_leaf(Self, <<>>) = Ok(arg_value)
        /\ (op = "prove" /\ arg_path = <<>>) => (outcome = "ok" /\ result = <<>>)

\* a call is malformed when its path has a length the operation rejects
Malformed ==
    \/ op \in {"update", "prove", "get_leaf"} /\ Len(arg_path) # height
    \/ op = "get_node_hash" /\ Len(arg_path) > height
    \/ op = "get_sibling_hash" /\ arg_path = <<>>

\* C8: a call with a malformed path length fails, and the node map, the
\* height and zero_hashes are what they were before it, so that every later
\* call sees the tree the rejected call found.
C8_MalformedRejected ==
    Malformed =>
        /\ outcome = "panic"
        /\ nodes = pre.nodes
        /\ height = pre.height
        /\ zero_hashes = pre.zero_hashes
        /\ Self = pre

\* an update with a path of the wrong length was rejected on a tree that
\* already stores nodes
C8_Witness ==
    /\ op = "update"
    /\ Len(arg_path) # height
    /\ outcome = "panic"
    /\ panic_line = 70
    /\ nodes # EmptyMap
    /\ nodes = pre.nodes

\* C9: for every height >= 0, update(path, V) either succeeds with the leaf
\* and all its ancestors stored, or fails with the node map as it was before
\* the call.
C9_AllOrNothing ==
    op = "update" =>
        \/ /\ outcome = "ok"
           /\ get_leaf(Self, arg_path) = Ok(arg_value)
           /\ \A q \in NodePaths : IsPrefix(q, arg_path) => q \in DOMAIN nodes
        \/ /\ outcome = "panic"
           /\ nodes = pre.nodes

\* C10: in a tree of height >= 1, prove(P) returns height sibling hashes,
\* leaf-to-root: entry i (from 0) is get_node_hash of the prefix of P of
\* length height - i with its last bit flipped; none of them is the root hash.
C10_ProofShape ==
    (height >= 1 /\ op = "prove" /\ Len(arg_path) = height) =>
        /\ outcome = "ok"
        /\ Len(result) = height
        /\ \A i \in 0..(height - 1) :
              /\ Ok(result[i + 1])
                    = get_node_hash(Self, FlipLast(SubSeq(arg_path, 1, height - i)))
              /\ Ok(result[i + 1]) # get_root(Self)

\* a proof was produced in a tree of height 2 where the sibling leaf is
\* written and differs from the sibling one level up
C10_Witness ==
    /\ height >= 2
    /\ op = "prove"
    /\ outcome = "ok"
    /\ FlipLast(arg_path) \in DOMAIN leaves
    /\ result[1] # zero_hashes[height + 1]
    /\ result[2] = zero_hashes[height]

\* C11: get_node_hash(p) succeeds for every path p of length <= height and
\* returns zero_hashes[len(p)] when p is absent from the map, the hash of
\* the stored entry otherwise; get_root() succeeds; get_sibling_hash(p)
\* succeeds for 1 <= len(p) <= height and is get_node_hash of p with its
\* last bit flipped.
C11_HashQueriesSucceed ==
    /\ (op = "get_node_hash" /\ Len(arg_path) <= height) =>
          /\ outcome = "ok"
          /\ arg_path \notin DOMAIN nodes => result = zero_hashes[Len(arg_path) + 1]
          /\ arg_path \in DOMAIN nodes => result = hash(nodes[arg_path])
    /\ op = "get_root" =>
          /\ outcome = "ok"
          /\ Ok(result) = get_node_hash(Self, <<>>)
    /\ (op = "get_sibling_hash" /\ Len(arg_path) >= 1 /\ Len(arg_path) <= height) =>
          /\ outcome = "ok"
          /\ Ok(result) = get_node_hash(Self, FlipLast(arg_path))

\* the hash of an absent node below the root was asked for in a tree that
\* stores nodes
C11_Witness ==
    /\ height >= 2
    /\ op = "get_node_hash"
    /\ outcome = "ok"
    /\ Len(arg_path) >= 1
    /\ arg_path \notin DOMAIN nodes
    /\ nodes # EmptyMap
    /\ result = zero_hashes[Len(arg_path) + 1]

\* C12: for a path P of length height, get_leaf(P) fails exactly when no
\* update has targeted P; it does not return the default value although
\* get_node_hash(P) is then the default leaf hash, and the tree is unchanged.
C12_GetLeafUnwritten ==
    (op = "get_leaf" /\ Len(arg_path) = height) =>
        /\ (outcome = "panic") <=> (arg_path \notin DOMAIN leaves)
        /\ outcome = "panic" =>
              /\ panic_line = 44
              /\ get_node_hash(Self, arg_path) = Ok(hash_or_noop(ZeroLeaf))
              /\ Self = pre
        /\ outcome = "ok" => result = leaves[arg_path]

\* get_leaf failed on an unwritten leaf of a tree in which another leaf is
\* written
C12_Witness ==
    /\ height >= 1
    /\ op = "get_leaf"
    /\ Len(arg_path) = height
    /\ outcome = "panic"
    /\ panic_line = 44
    /\ leaves # EmptyMap
    /\ arg_path \notin DOMAIN leaves

\* C13: in a tree of height >= 1, every InnerNode stored at a path p has
\* left = get_node_hash(p + false) and right = get_node_hash(p + true) on
\* the current map.
C13_StoredChildren ==
    height >= 1 =>
        \A p \in DOMAIN nodes :
            nodes[p].kind = "InnerNode" =>
                /\ Ok(nodes[p].left) = get_node_hash(Self, Append(p, FALSE))
                /\ Ok(nodes[p].right) = get_node_hash(Self, Append(p, TRUE))

\* an inner node below the root is stored whose right child is written and
\* whose left child is absent
C13_Witness ==
    /\ height >= 2
    /\ op = "update"
    /\ outcome = "ok"
    /\ \E p \in DOMAIN nodes :
          /\ Len(p) = height - 1
          /\ nodes[p].kind = "InnerNode"
          /\ Append(p, TRUE) \in DOMAIN nodes
          /\ Append(p, FALSE) \notin DOMAIN nodes
          /\ nodes[p].left # nodes[p].right

\* C14: zero_hashes has height + 1 entries, zero_hashes[height] is the leaf
\* hash of the all-default value and zero_hashes[d] is
\* two-to-one(zero_hashes[d + 1], zero_hashes[d + 1]) for d < height, in
\* every state.
C14_ZeroHashes ==
    /\ Len(zero_hashes) = height + 1
    /\ zero_hashes[height + 1] = hash_or_noop(ZeroLeaf)
    /\ \A d \in 0..(height - 1) :
          zero_hashes[d + 1] = two_to_one(zero_hashes[d + 2], zero_hashes[d + 2])

\* an update has completed on a tree of height 2
C14_Witness ==
    /\ height >= 2
    /\ op = "update"
    /\ outcome = "ok"
    /\ nodes # pre.nodes
    /\ zero_hashes = pre.zero_hashes
    /\ zero_hashes[1] = two_to_one(zero_hashes[2], zero_hashes[2])

\* C15: every key of the map has length <= height, a key of length height
\* maps to a Leaf and, for height >= 1, a key of length < height maps to an
\* InnerNode; so get_leaf does not fail on a written path.
C15_VariantByLength ==
    /\ \A p \in DOMAIN nodes :
          /\ Len(p) <= height
          /\ Len(p) = height => nodes[p].kind = "Leaf"
          /\ (height >= 1 /\ Len(p) < height) => nodes[p].kind = "InnerNode"
    /\ \A P \in DOMAIN leaves : get_leaf(Self, P).outcome = "ok"

\* a tree of height 2 stores leaves and inner nodes
C15_Witness ==
    /\ height >= 2
    /\ \E p \in DOMAIN nodes : nodes[p].kind = "Leaf"
    /\ \E p \in DOMAIN nodes : Len(p) = 1 /\ nodes[p].kind = "InnerNode"
    /\ nodes[<<>>].kind = "InnerNode"
    /\ op = "get_leaf"
    /\ outcome = "ok"

\* the prefixes, from the empty path to the path itself, of the leaf paths
\* that were targets of an update
PrefixesOfWritten == {SubSeq(P, 1, n) : P \in DOMAIN leaves, n \in 0..height}

\* C16: in a tree of height >= 1 the keys of the map are exactly the
\* prefixes of the leaf paths updated so far, so the key set is
\* prefix-closed and empty only before the first update; and no step
\* removes a key.
C16_KeySet ==
    /\ [](height >= 1 =>
            /\ DOMAIN nodes = PrefixesOfWritten
            /\ \A p \in DOMAIN nodes : Len(p) >= 1 => Pop(p) \in DOMAIN nodes
            /\ (DOMAIN nodes = {}) <=> (DOMAIN leaves = {}))
    /\ [][height >= 1 => DOMAIN nodes \subseteq DOMAIN nodes']_vars

\* two leaves in different halves of a tree of height 2 are written
C16_Witness ==
    /\ height >= 2
    /\ op = "update"
    /\ outcome = "ok"
    /\ Cardinality(DOMAIN leaves) = 2
    /\ Cardinality(DOMAIN nodes) = 5
    /\ DOMAIN pre.nodes # DOMAIN nodes

\* the leaf at P held the default value in the tree self
HeldDefault(self, P) ==
    P \notin DOMAIN self.nodes \/ self.nodes[P] = Leaf(ZeroLeaf)

\* C17: in a tree of height >= 1, update(P, default) on a leaf P whose value
\* is the default stores a Leaf at P, so get_leaf(P) returns the default,
\* and changes get_node_hash(q) for no path q of length <= height; when
\* every written leaf holds the default, get_root() is zero_hashes[0].
C17_ExplicitDefault ==
    height >= 1 =>
        /\ (/\ op = "update" /\ Len(arg_path) = height
            /\ arg_value = ZeroLeaf /\ HeldDefault(pre, arg_path)) =>
              /\ outcome = "ok"
              /\ arg_path \in DOMAIN nodes
              /\ nodes[arg_path] = Leaf(ZeroLeaf)
              /\ get_leaf(Self, arg_path) = Ok(ZeroLeaf)
              /\ \A q \in NodePaths : get_node_hash(Self, q) = get_node_hash(pre, q)
              /\ get_root(Self) = get_root(pre)
        /\ (\A P \in DOMAIN leaves : leaves[P] = ZeroLeaf) =>
              get_root(Self) = Ok(zero_hashes[1])

\* the default was written to a leaf that had never been written, in a tree
\* whose root is not the default root
C17_Witness ==
    /\ height >= 2
    /\ op = "update"
    /\ outcome = "ok"
    /\ arg_value = ZeroLeaf
    /\ arg_path \notin DOMAIN pre.nodes
    /\ arg_path \in DOMAIN nodes
    /\ get_root(pre) # Ok(zero_hashes[1])
    /\ get_root(Self) = get_root(pre)

\* C18: in a tree of height >= 1, for every path P of length height, the
\* fold of prove(P) over the bits of P, started at the leaf hash of the
\* current value of P (the default when P was never written), is get_root().
C18_ProofsStayValid ==
    (height >= 1 /\ op = "prove" /\ Len(arg_path) = height) =>
        /\ outcome = "ok"
        /\ Ok(Fold(result, arg_path, hash_or_noop(CurrentValue(arg_path))))
              = get_root(Self)

\* a proof was produced for an unwritten leaf while a written leaf holds a
\* value that is not the default
C18_Witness ==
    /\ height >= 2
    /\ op = "prove"
    /\ outcome = "ok"
    /\ arg_path \notin DOMAIN leaves
    /\ \E Q \in DOMAIN leaves : leaves[Q] # ZeroLeaf
    /\ result[1] # result[2]

\* the tree self after update(path, value)
After(self, path, value) == [self EXCEPT !.nodes = update(self, path, value).nodes]

\* C19: in a tree of height >= 1, for leaf paths P # Q and values V, W,
\* update(Q, W) then update(P, V) gives the same node map and the same root
\* as update(P, V) then update(Q, W).
C19_Commute ==
    (height >= 1 /\ op = "update" /\ outcome = "ok") =>
        \A P \in NodePaths, V \in Values :
            (Len(P) = height /\ P # arg_path) =>
                /\ After(Self, P, V).nodes
                      = After(After(pre, P, V), arg_path, arg_value).nodes
                /\ get_root(After(Self, P, V))
                      = get_root(After(After(pre, P, V), arg_path, arg_value))

\* an update has completed whose sibling leaf was written before it with
\* another value
C19_Witness ==
    /\ height >= 2
    /\ op = "update"
    /\ outcome = "ok"
    /\ FlipLast(arg_path) \in DOMAIN pre.nodes
    /\ pre.nodes[FlipLast(arg_path)] # Leaf(arg_value)
    /\ arg_path \notin DOMAIN pre.nodes

\* C20: in a tree of height >= 1, update(P, V) with len(P) = height ends
\* after height passes of its loop: it stores the leaf and then one
\* InnerNode per pass at the prefixes of P of lengths height - 1, ..., 0 in
\* that order; prove(P) ends after height passes.
C20_LoopCounts ==
    (height >= 1 /\ Len(arg_path) = height) =>
        /\ op = "update" =>
              /\ outcome = "ok"
              /\ Len(writes) = height + 1
              /\ \A i \in 0..height : writes[i + 1] = SubSeq(arg_path, 1, height - i)
              /\ \A i \in 1..height : nodes[writes[i + 1]].kind = "InnerNode"
              /\ writes[height + 1] = <<>>
        /\ op = "prove" =>
              /\ outcome = "ok"
              /\ Len(result) = height

\* an update of a tree of height 2 has stored the leaf, its parent and the
\* root
C20_Witness ==
    /\ height = 2
    /\ op = "update"
    /\ outcome = "ok"
    /\ writes = <<arg_path, Pop(arg_path), <<>>>>
    /\ arg_path[1] # arg_path[2]

====
